---- MODULE Spec2Model ----
(***************************************************************************)
(* StaticInfer (paddlex/inference/models/common/static_infer.py): the      *)
(* construction of a predictor for a device and a run mode, the TensorRT   *)
(* shape range collection and conversion it may perform on the way, and    *)
(* the per-call path __call__ -> _sort_inputs -> infer.                    *)
(*                                                                         *)
(* Input names are modelled by their rank in string order (1 = "a",        *)
(* 2 = "b", ...), a tensor by the name it belongs to, a shape by a number. *)
(* The fields of the option are drawn where the code first reads them.     *)
(***************************************************************************)
EXTENDS Integers, Sequences, FiniteSets, TLC

VARIABLES
    USE_PIR_TRT,   \* utils.flags.USE_PIR_TRT, fixed for the process
    profile,       \* the shape range info file
    engine,        \* the converted model under <cache>/trt/<prefix>
    declared,      \* predictor.get_input_names() of the model
    other,         \* a second process in _configure_trt on the same cache dir
    chain,         \* the PaddleInferChainLegacy: its handles and its native calls
    pc,            \* position of the construction / life of the StaticInfer
    err,           \* the exception that ended the construction, "" if none
    option,        \* self._option, fields read in __init__ and _create
    trt,           \* trt_* fields of the option and locals of _configure_trt
    config,        \* the lazy_paddle.inference.Config being built
    logged,        \* logging.warning and logging.debug calls of this construction
    log,           \* calls into the native library made by this construction
    recorder,      \* the predictor of _collect_trt_shape_range_info
    handles,       \* shapes last written to the recorder's input handles
    recorded,      \* handle shapes at each predictor.run() of the recorder
    passIdx,       \* position in [min_arrs, opt_arrs, opt_arrs, max_arrs]
    predictor,     \* self.predictor has been created
    infer,         \* self.infer
    invocations,   \* native predictor runs made by self.infer
    call           \* the last __call__: len(x), its outcome, and once the count
                   \* is accepted x and what infer got

vars == <<USE_PIR_TRT, profile, engine, declared, other, chain, pc, err, option, trt,
          config,
          logged, log, recorder, handles, recorded, passIdx, predictor,
          infer, invocations, call>>

----------------------------------------------------------------------------
(* Bounds *)

MaxDeviceId == 1
MaxShapeSet == 2
MaxRuns == 1
MaxInputs == 3
NumNames == 3
MaxOutputs == 2

----------------------------------------------------------------------------
(* Values *)

NoId == -1
DeviceIds == {NoId} \cup (0..MaxDeviceId)
DeviceTypes == {"cpu", "gpu", "npu", "xpu", "mlu", "dcu", "gcu"}
RunModes == {"paddle", "mkldnn", "mkldnn_bf16", "trt_fp32", "trt_fp16", "trt_int8"}
ModelNames == {"LaTeX_OCR_rec", "PP-LCNet_x1_0"}
AllNames == 1..NumNames
ModelInputs == <<2, 1>>

Range(s) == {s[i] : i \in 1..Len(s)}

SeqsUpTo(S, n) == UNION {[1..k -> S] : k \in 0..n}

NoFile == [exists |-> FALSE, content |-> <<>>]

\* dynamic_shapes[name] = (min_shape, opt_shape, max_shape)
ShapeTriple(name, v) == <<v, v + name, v + 2 * name>>

NoShapes == [given |-> FALSE, keys |-> {}, v |-> 1]
DynamicShapes == {NoShapes} \cup
    {[given |-> TRUE, keys |-> k, v |-> v] : k \in SUBSET AllNames, v \in 1..MaxShapeSet}

NoTrt == [use_dynamic_shapes |-> TRUE, collect |-> TRUE,
          existed |-> FALSE, discard |-> FALSE, should_collect |-> FALSE,
          dynamic_shapes |-> NoShapes, input_data |-> {}, overrides |-> {}]

NoConfig == [model |-> "none", gpu |-> NoId, precision |-> "", settings |-> {}]
NoInfer == [kind |-> "none", device_type |-> "", device_id |-> NoId]
NoCall == [status |-> "none", n |-> 0, x |-> <<>>, received |-> <<>>]
NoChain == [output_names |-> <<>>, input_handles |-> <<>>,
            output_handles |-> <<>>, at |-> "none", i |-> 1, ops |-> <<>>]
NoOther == [pc |-> "none", existed |-> FALSE, discard |-> FALSE,
            should_collect |-> FALSE, recorded |-> <<>>, err |-> ""]
NoOption == [model_name |-> "", device_type |-> "", device_id |-> NoId, run_mode |-> ""]

Event(e, gpu) == [e |-> e, gpu |-> gpu]

----------------------------------------------------------------------------
(* Pure helpers *)

IsTrt(mode) == mode \in {"trt_fp32", "trt_fp16", "trt_int8"}
HasMkldnn(mode) == mode \in {"mkldnn", "mkldnn_bf16"}
HasBf16(mode) == mode = "mkldnn_bf16"

\* dcu left out of the modern devices
_use_legacy_api_no_dcu(opt) == opt.device_type \notin {"cpu", "gpu"}

_use_legacy_api(opt) == opt.device_type \notin {"cpu", "gpu", "dcu"}

----------------------------------------------------------------------------
(* Initial state *)

Fresh ==
    /\ pc = "idle"
    /\ err = ""
    /\ option = NoOption
    /\ trt = NoTrt
    /\ config = NoConfig
    /\ logged = {}
    /\ log = <<>>
    /\ recorder = "none"
    /\ handles = [n \in AllNames |-> 0]
    /\ recorded = <<>>
    /\ passIdx = 1
    /\ predictor = FALSE
    /\ infer = NoInfer
    /\ invocations = 0
    /\ call = NoCall

Init ==
    /\ USE_PIR_TRT \in BOOLEAN
    /\ profile = NoFile
    /\ engine = NoFile
    /\ declared = ModelInputs
    /\ other = NoOther
    /\ chain = NoChain
    /\ Fresh

----------------------------------------------------------------------------
(* Construction: __init__ and _create *)

files == <<USE_PIR_TRT, profile, engine, declared, other, chain>>
calib == <<recorder, handles, recorded, passIdx>>
facade == <<predictor, infer, invocations, call>>

Fail(e) ==
    /\ pc' = "failed"
    /\ err' = e

\* __init__ up to the call of _create, and get_model_paths
Construct ==
    /\ pc = "idle"
    /\ \E mn \in ModelNames, dt \in DeviceTypes, id \in DeviceIds, rm \in RunModes,
          hasPaddle \in BOOLEAN :
        /\ option' = [model_name |-> mn, device_type |-> dt, device_id |-> id,
                      run_mode |-> rm]
        /\ IF hasPaddle
             THEN pc' = "normalize" /\ err' = ""
             ELSE Fail("No valid Paddle model found")
    /\ UNCHANGED <<files, trt, config, logged, log, calib, facade>>

\* the LaTeX_OCR_rec override and the default device id
NormalizedRunMode(opt) ==
    IF opt.model_name = "LaTeX_OCR_rec" THEN "mkldnn" ELSE opt.run_mode

\* the default applied to gpu only
NormalizedDeviceIdGpuOnly(opt) ==
    IF opt.device_type = "gpu" /\ opt.device_id = NoId
      THEN 0 ELSE opt.device_id

NormalizedDeviceId(opt) ==
    IF opt.device_type \in {"gpu", "dcu"} /\ opt.device_id = NoId
      THEN 0 ELSE opt.device_id

\* the warning and the two debug messages of the normalization
NormalizeLogged(opt, intel) ==
    (IF opt.model_name = "LaTeX_OCR_rec" /\ intel /\ opt.run_mode # "mkldnn"
       THEN {"warning: LaTeX_OCR_rec only supports mkldnn on Intel"} ELSE {}) \cup
    (IF opt.model_name = "LaTeX_OCR_rec"
       THEN {"debug: run_mode updated to mkldnn"} ELSE {}) \cup
    (IF opt.device_type \in {"gpu", "dcu"} /\ opt.device_id = NoId
       THEN {"debug: device_id has been set to 0"} ELSE {})

\* dcu let through the assertion
GpuOrDcuAsserted(opt) == opt.device_type \in {"gpu", "dcu"}

\* assert self._option.device_type == "gpu"
GpuAsserted(opt) == opt.device_type = "gpu"

\* the override and the default, then the branch on run_mode.startswith("trt")
SelectBackend ==
    /\ pc = "normalize"
    /\ \E intel \in BOOLEAN :
        logged' = logged \cup NormalizeLogged(option, intel)
    /\ option' = [option EXCEPT !.run_mode = NormalizedRunMode(option),
                                !.device_id = NormalizedDeviceId(option)]
    /\ IF IsTrt(option'.run_mode)
         THEN /\ IF GpuAsserted(option')
                   THEN pc' = "configure_trt" /\ err' = err
                   ELSE Fail("assert device_type == gpu")
              /\ config' = config
         ELSE /\ config' = [config EXCEPT !.model = "paddle"]
              /\ pc' = "device"
              /\ err' = err
    /\ UNCHANGED <<files, trt, log, calib, facade>>

\* the StaticInfer object is dropped; the files stay
Release ==
    /\ pc \in {"ready", "failed"}
    /\ pc' = "idle"
    /\ err' = ""
    /\ option' = NoOption
    /\ trt' = NoTrt
    /\ config' = NoConfig
    /\ logged' = {}
    /\ log' = <<>>
    /\ recorder' = "none"
    /\ handles' = [n \in AllNames |-> 0]
    /\ recorded' = <<>>
    /\ passIdx' = 1
    /\ predictor' = FALSE
    /\ infer' = NoInfer
    /\ invocations' = 0
    /\ call' = NoCall
    /\ UNCHANGED files

----------------------------------------------------------------------------
(* _configure_trt, old trt: enable_tensorrt_engine and the shape range info *)

PRECISION_MAP(mode) ==
    CASE mode = "trt_int8" -> "Int8"
      [] mode = "trt_fp32" -> "Float32"
      [] mode = "trt_fp16" -> "Half"

\* the converter chosen for trt_int8 whatever the flag
UsePirTrtForInt8(flag, opt) == flag \/ opt.run_mode = "trt_int8"

\* if USE_PIR_TRT: the flag alone chooses between _convert_trt and the
\* enable_tensorrt_engine route
UsePirTrt(flag, opt) == flag

EnableTrtEngine ==
    /\ pc = "configure_trt"
    /\ ~UsePirTrt(USE_PIR_TRT, option)
    /\ \E dyn \in BOOLEAN, col \in BOOLEAN :
        /\ trt' = [trt EXCEPT !.use_dynamic_shapes = dyn, !.collect = col]
        /\ pc' = IF ~dyn THEN "device"
                 ELSE IF col THEN "shape_range_info" ELSE "dynamic_shape_info"
    /\ config' = [config EXCEPT !.model = "paddle",
                                !.precision = PRECISION_MAP(option.run_mode),
                                !.settings = @ \cup {"set_optim_cache_dir",
                                                     "enable_tensorrt_engine"}]
    /\ UNCHANGED <<files, err, option, logged, log, calib, facade>>

\* unlink whenever the file exists
ShouldUnlinkExisting(exists, discard) == exists

\* the three branches on trt_shape_range_info_path.exists()
ShouldUnlink(exists, discard) == exists /\ discard

\* should_collect_shape_range_info never reset
ShouldCollectAlways(exists, discard) == TRUE

ShouldCollect(exists, discard) ==
    IF ~exists THEN TRUE
    ELSE IF discard THEN TRUE
    ELSE FALSE

CheckShapeRangeInfo ==
    /\ pc = "shape_range_info"
    /\ \E discard \in BOOLEAN :
        LET exists == profile.exists IN
        /\ trt' = [trt EXCEPT !.existed = exists, !.discard = discard,
                              !.should_collect = ShouldCollect(exists, discard)]
        /\ IF ShouldUnlink(exists, discard)
             THEN /\ profile' = NoFile
                  /\ log' = Append(log, Event("unlink", NoId))
             ELSE UNCHANGED <<profile, log>>
        /\ pc' = IF ShouldCollect(exists, discard) THEN "collect" ELSE "tuned"
    /\ UNCHANGED <<USE_PIR_TRT, engine, declared, other, chain, err, option, config,
                   logged, calib, facade>>

EnableTuned ==
    /\ pc = "tuned"
    /\ config' = [config EXCEPT
                    !.settings = @ \cup {"enable_tuned_tensorrt_dynamic_shape"}]
    /\ pc' = "device"
    /\ UNCHANGED <<files, err, option, trt, logged, log, calib, facade>>

\* the branch without a shape range info file
SetDynamicShapeInfo ==
    /\ pc = "dynamic_shape_info"
    /\ \E ds \in DynamicShapes :
        /\ trt' = [trt EXCEPT !.dynamic_shapes = ds]
        /\ IF ds.given
             THEN /\ config' = [config EXCEPT !.settings =
                                  IF ds.keys # {}
                                    THEN @ \cup {"set_trt_dynamic_shape_info"}
                                    ELSE @]
                  /\ pc' = "device"
                  /\ err' = err
             ELSE /\ Fail("No dynamic shape information provided")
                  /\ config' = config
    /\ UNCHANGED <<files, option, logged, log, calib, facade>>

----------------------------------------------------------------------------
(* _collect_trt_shape_range_info *)

\* Config, enable_use_gpu(100, gpu_id), collect_shape_range_info, create_predictor
RecorderGpu(opt) == opt.device_id

CollectCreate ==
    /\ pc = "collect"
    /\ \E ds \in DynamicShapes, data \in {{}} \cup {{n} : n \in AllNames} :
        trt' = [trt EXCEPT !.dynamic_shapes = ds, !.input_data = data]
    /\ recorder' = "live"
    /\ log' = Append(log, Event("create_recorder", RecorderGpu(option)))
    /\ pc' = "collect_validate"
    /\ UNCHANGED <<files, err, option, config, logged, handles,
                   recorded, passIdx, facade>>

\* the three loops over dynamic_shapes, input_names and dynamic_shape_input_data;
\* "" when none of them raises
CollectCheckNames(ds, data, input_names) ==
    IF ~ds.given THEN "TypeError"
    ELSE IF \E name \in ds.keys : name \notin Range(input_names)
      THEN "Invalid input name found in dynamic_shapes"
    ELSE IF \E name \in Range(input_names) : name \notin ds.keys
      THEN "Input name not found in dynamic_shapes"
    ELSE IF \E name \in data : name \notin Range(input_names)
      THEN "Invalid input name found in dynamic_shape_input_data"
    ELSE ""

CollectValidate ==
    /\ pc = "collect_validate"
    /\ LET e == CollectCheckNames(trt.dynamic_shapes, trt.input_data, declared) IN
        IF e = ""
          THEN pc' = "collect_arrays" /\ err' = err /\ recorder' = recorder
          ELSE Fail(e) /\ recorder' = "pending"
    /\ UNCHANGED <<files, option, trt, config, logged, log, handles,
                   recorded, passIdx, facade>>

DataTypes == {"FLOAT64", "FLOAT32", "INT64", "INT32", "UINT8", "INT8", "BOOL"}

_pd_dtype_to_np_dtype(pd_dtype) ==
    CASE pd_dtype = "FLOAT64" -> "float64"
      [] pd_dtype = "FLOAT32" -> "float32"
      [] pd_dtype = "INT64" -> "int64"
      [] pd_dtype = "INT32" -> "int32"
      [] pd_dtype = "UINT8" -> "uint8"
      [] pd_dtype = "INT8" -> "int8"
      [] OTHER -> "TypeError"

\* building min_arrs, opt_arrs, max_arrs
CollectArrays ==
    /\ pc = "collect_arrays"
    /\ \E t \in DataTypes :
        IF _pd_dtype_to_np_dtype(t) = "TypeError"
          THEN Fail("TypeError") /\ recorder' = "pending" /\ passIdx' = passIdx
          ELSE pc' = "collect_pass" /\ err' = err /\ recorder' = recorder
               /\ passIdx' = 1
    /\ UNCHANGED <<files, option, trt, config, logged, log, handles,
                   recorded, facade>>

\* opt_arrs fed once only
CalibPassesOnce == <<1, 2, 3>>

\* [min_arrs, opt_arrs, opt_arrs, max_arrs] as positions in a shape triple
CalibPasses == <<1, 2, 2, 3>>

\* one pass of the outer loop: write every array, then predictor.run()
CollectPass ==
    /\ pc = "collect_pass"
    /\ LET ds == trt.dynamic_shapes
           k == CalibPasses[passIdx]
           h == [n \in AllNames |->
                   IF n \in ds.keys THEN ShapeTriple(n, ds.v)[k] ELSE handles[n]]
       IN /\ handles' = h
          /\ recorded' = Append(recorded, h)
    /\ log' = Append(log, Event("recorder_run", NoId))
    /\ IF passIdx = Len(CalibPasses)
         THEN pc' = "collect_return" /\ passIdx' = passIdx
         ELSE pc' = pc /\ passIdx' = passIdx + 1
    /\ UNCHANGED <<files, err, option, trt, config, logged, recorder,
                   facade>>

\* the recorder writes what it recorded when it is garbage collected
WrittenProfile(rec) == [exists |-> TRUE, content |-> rec]

\* return: the last reference to the recorder goes away
CollectReturn ==
    /\ pc = "collect_return"
    /\ profile' = WrittenProfile(recorded)
    /\ recorder' = "collected"
    /\ log' = Append(log, Event("write_profile", NoId))
    /\ pc' = "tuned"
    /\ UNCHANGED <<USE_PIR_TRT, engine, declared, other, chain, err, option, trt,
                   config, logged, handles, recorded, passIdx, facade>>

\* after a raise the traceback holds the recorder until it is dropped
FinalizeRecorder ==
    /\ pc = "failed"
    /\ recorder = "pending"
    /\ profile' = WrittenProfile(recorded)
    /\ recorder' = "collected"
    /\ log' = Append(log, Event("write_profile", NoId))
    /\ UNCHANGED <<USE_PIR_TRT, engine, declared, other, chain, pc, err, option, trt,
                   config, logged, handles, recorded, passIdx, facade>>

----------------------------------------------------------------------------
(* _convert_trt, pir trt *)

ConvertCheckNames(ds, input_names) ==
    IF ~ds.given THEN "TypeError"
    ELSE IF \E name \in ds.keys : name \notin Range(input_names)
      THEN "Invalid input name found in trt_dynamic_shapes"
    ELSE IF \E name \in Range(input_names) : name \notin ds.keys
      THEN "Input name not found in trt_dynamic_shapes"
    ELSE ""

\* _get_input_names and the two loops that follow it
ConvertCheck ==
    /\ pc = "configure_trt"
    /\ UsePirTrt(USE_PIR_TRT, option)
    /\ \E ds \in DynamicShapes :
        /\ trt' = [trt EXCEPT !.dynamic_shapes = ds]
        /\ LET e == ConvertCheckNames(ds, declared) IN
            IF e = "" THEN pc' = "convert" /\ err' = err ELSE Fail(e)
    /\ log' = Append(log, Event("create_probe", NoId))
    /\ UNCHANGED <<files, option, config, logged, calib, facade>>

precision_map(mode) ==
    CASE mode = "trt_int8" -> "INT8"
      [] mode = "trt_fp32" -> "FP32"
      [] mode = "trt_fp16" -> "FP16"

\* attributes a TensorRTConfig has, and the names TRT_CFG may hold for a model
TensorRTConfigAttrs == {"disable_ops", "precision_mode", "save_model_dir"}
TrtCfgNames == {"disable_ops", "not_an_attr"}

\* _set_trt_config: warn about a name that is no attribute, setattr every name
SetTrtConfigWarnings(settings) ==
    IF \E attr_name \in settings : attr_name \notin TensorRTConfigAttrs
      THEN {"warning: The TensorRTConfig don't have the attr"} ELSE {}

SetTrtConfigApplied(settings) == settings

\* TensorRTConfig, _set_trt_config, convert, and the Config over the result
Convert ==
    /\ pc = "convert"
    /\ \E settings \in SUBSET TrtCfgNames :
        /\ logged' = logged \cup SetTrtConfigWarnings(settings)
        /\ trt' = [trt EXCEPT !.overrides = SetTrtConfigApplied(settings)]
    /\ engine' = [exists |-> TRUE,
                  content |-> <<precision_map(option.run_mode)>>]
    /\ log' = Append(log, Event("convert", NoId))
    /\ config' = [config EXCEPT !.model = "trt",
                                !.precision = precision_map(option.run_mode)]
    /\ pc' = "device"
    /\ UNCHANGED <<USE_PIR_TRT, profile, declared, other, chain, err, option, calib,
                   facade>>

----------------------------------------------------------------------------
(* _create: the device branches, create_predictor *)

Capabilities == [new_ir : BOOLEAN, new_executor : BOOLEAN,
                 disable_mkldnn : BOOLEAN, rocm : BOOLEAN,
                 raises : {"", "enable_mkldnn", "enable_mkldnn_bfloat16"}]

NewIr(caps) == IF caps.new_ir THEN {"enable_new_ir"} ELSE {}
NewExecutor(caps) == IF caps.new_executor THEN {"enable_new_executor"} ELSE {}

\* the toggles and the level applied in the trt run modes too
GpuSettingsAlways(opt, caps) ==
    {"exp_disable_mixed_precision_ops", "enable_use_gpu"} \cup
    NewIr(caps) \cup NewExecutor(caps) \cup {"set_optimization_level"}

GpuSettings(opt, caps) ==
    {"exp_disable_mixed_precision_ops", "enable_use_gpu"} \cup
    (IF ~IsTrt(opt.run_mode)
       THEN NewIr(caps) \cup NewExecutor(caps) \cup {"set_optimization_level"}
       ELSE {})

DcuSettings(opt, caps) ==
    {"enable_use_gpu"} \cup NewExecutor(caps) \cup
    (IF caps.rocm
       THEN {"delete_pass conv2d_add_act_fuse_pass",
             "delete_pass conv2d_add_fuse_pass"}
       ELSE {})

\* the try block: a raise skips what follows it in the block
MkldnnSettings(opt, caps) ==
    IF caps.raises = "enable_mkldnn" THEN {}
    ELSE {"enable_mkldnn"} \cup
         (IF HasBf16(opt.run_mode) /\ caps.raises # "enable_mkldnn_bfloat16"
            THEN {"enable_mkldnn_bfloat16"} ELSE {})

MkldnnRaised(opt, caps) ==
    \/ caps.raises = "enable_mkldnn"
    \/ HasBf16(opt.run_mode) /\ caps.raises = "enable_mkldnn_bfloat16"

CpuSettings(opt, caps) ==
    {"disable_gpu"} \cup
    (IF HasMkldnn(opt.run_mode)
       THEN MkldnnSettings(opt, caps) \cup {"set_mkldnn_cache_capacity"}
       ELSE IF caps.disable_mkldnn THEN {"disable_mkldnn"} ELSE {}) \cup
    {"set_cpu_math_library_num_threads"} \cup
    NewIr(caps) \cup NewExecutor(caps) \cup {"set_optimization_level"}

DeviceSettings(opt, caps) ==
    CASE opt.device_type = "gpu" -> GpuSettings(opt, caps)
      [] opt.device_type = "npu" -> {"enable_custom_device npu"} \cup NewExecutor(caps)
      [] opt.device_type = "xpu" -> NewExecutor(caps)
      [] opt.device_type = "mlu" -> {"enable_custom_device mlu"} \cup NewExecutor(caps)
      [] opt.device_type = "dcu" -> DcuSettings(opt, caps)
      [] OTHER -> CpuSettings(opt, caps)

\* the id given to enable_use_gpu
ConfigGpu(opt) == IF opt.device_type \in {"gpu", "dcu"} THEN opt.device_id ELSE NoId

Configured(cfg, opt, caps) ==
    [cfg EXCEPT !.gpu = ConfigGpu(opt),
                !.settings = @ \cup DeviceSettings(opt, caps)
                               \cup {"enable_memory_optim", "disable_glog_info"}]

ConfigWarnings(opt, caps) ==
    IF opt.device_type = "cpu" /\ HasMkldnn(opt.run_mode) /\ MkldnnRaised(opt, caps)
      THEN {"warning: MKL-DNN is not available. We will disable MKL-DNN."} ELSE {}

\* the exception of enable_mkldnn let out of the try block
DeviceErrorUncaught(opt, caps) ==
    IF opt.device_type \notin {"gpu", "npu", "xpu", "mlu", "dcu", "cpu"}
      THEN "assert device_type == cpu"
    ELSE IF opt.device_type = "cpu" /\ HasMkldnn(opt.run_mode)
            /\ MkldnnRaised(opt, caps)
      THEN "MKL-DNN is not available"
    ELSE ""

\* what the device branches raise: the assertion of the last branch; the
\* try block catches every Exception, hasattr guards the optional methods
DeviceError(opt, caps) ==
    IF opt.device_type \notin {"gpu", "npu", "xpu", "mlu", "dcu", "cpu"}
      THEN "assert device_type == cpu"
    ELSE ""

DeviceConfig ==
    /\ pc = "device"
    /\ \E caps \in Capabilities :
        LET e == DeviceError(option, caps) IN
        IF e = ""
          THEN /\ config' = Configured(config, option, caps)
               /\ logged' = logged \cup ConfigWarnings(option, caps)
               /\ pc' = "create"
               /\ err' = err
          ELSE /\ Fail(e)
               /\ UNCHANGED <<config, logged>>
    /\ UNCHANGED <<files, option, trt, log, calib, facade>>

CreatePredictor ==
    /\ pc = "create"
    /\ log' = Append(log, Event("create_predictor", config.gpu))
    /\ predictor' = TRUE
    /\ pc' = "pipeline"
    /\ UNCHANGED <<files, err, option, trt, config, logged, calib,
                   infer, invocations, call>>

----------------------------------------------------------------------------
(* __init__ after _create: the choice of self.infer *)

Pipeline(opt) ==
    IF ~_use_legacy_api(opt)
      THEN [kind |-> "modern",
            device_type |-> IF opt.device_type = "dcu" THEN "gpu" ELSE opt.device_type,
            device_id |-> opt.device_id]
      ELSE [kind |-> "legacy", device_type |-> "", device_id |-> NoId]

\* self.infer chosen although _create raised
SelectPipelineAfterRaise ==
    /\ pc \in {"pipeline", "failed"}
    /\ infer' = Pipeline(option)
    /\ pc' = "ready"
    /\ UNCHANGED <<files, err, option, trt, config, logged, log, calib,
                   predictor, invocations, call>>

SelectPipeline ==
    /\ pc = "pipeline"
    /\ infer' = Pipeline(option)
    /\ pc' = "ready"
    /\ UNCHANGED <<files, err, option, trt, config, logged, log, calib,
                   predictor, invocations, call>>

----------------------------------------------------------------------------
(* __call__ and _sort_inputs *)

\* insert index i into a list of indices ordered by key, after equal keys
RECURSIVE InsertByKey(_, _, _)
InsertByKey(indices, i, key) ==
    IF indices = <<>> THEN <<i>>
    ELSE IF key[i] < key[Head(indices)] THEN <<i>> \o indices
    ELSE <<Head(indices)>> \o InsertByKey(Tail(indices), i, key)

\* sorted(range(len(names)), key=names.__getitem__)
RECURSIVE SortedRange(_, _)
SortedRange(names, n) ==
    IF n = 0 THEN <<>> ELSE InsertByKey(SortedRange(names, n - 1), n, names)

\* list.index
Index(s, v) == CHOOSE i \in 1..Len(s) : s[i] = v /\ \A j \in 1..(i - 1) : s[j] # v

\* the permutation applied in the wrong direction
_sort_inputs_forward(inputs, names) ==
    LET indices == SortedRange(names, Len(names))
    IN [i \in 1..Len(inputs) |-> inputs[indices[i]]]

_sort_inputs(inputs, names) ==
    LET indices == SortedRange(names, Len(names))
    IN [i \in 1..Len(inputs) |-> inputs[Index(indices, i)]]

\* the lists a caller can make of the tensors prepared for the inputs, one
\* tensor for each declared input
Tensors(names) ==
    {x \in [1..Len(names) -> Range(names)] :
        \A t \in Range(names) :
            Cardinality({i \in 1..Len(x) : x[i] = t}) =
            Cardinality({i \in 1..Len(names) : names[i] = t})}

CountError == "The number of inputs does not match the model"

\* the predictor run twice for one call
InferRunsTwice(n) == n + 2

\* self.infer(x): PaddleModelInfer and PaddleInferChainLegacy both make one
\* self.predictor.run
InferRuns(n) == n + 1

\* the count compared after self.infer has been called
RunCheckedLate ==
    /\ pc = "ready"
    /\ invocations < MaxRuns
    /\ \E n \in 0..MaxInputs :
        IF Len(declared) # n
          THEN /\ call' = [status |-> CountError, n |-> n, x |-> <<>>,
                           received |-> <<>>]
               /\ invocations' = invocations + 1
          ELSE /\ \E x \in Tensors(declared) :
                    call' = [status |-> "ok", n |-> n, x |-> x,
                             received |-> _sort_inputs(x, declared)]
               /\ invocations' = invocations + 1
    /\ UNCHANGED <<files, pc, err, option, trt, config, logged, log,
                   calib, predictor, infer>>

Run ==
    /\ pc = "ready"
    /\ \E n \in 0..MaxInputs :
        IF Len(declared) # n
          THEN /\ call' = [status |-> CountError, n |-> n, x |-> <<>>,
                           received |-> <<>>]
               /\ invocations' = invocations
          ELSE /\ invocations < MaxRuns
               /\ \E x \in Tensors(declared) :
                    call' = [status |-> "ok", n |-> n, x |-> x,
                             received |-> _sort_inputs(x, declared)]
               /\ invocations' = InferRuns(invocations)
    /\ UNCHANGED <<files, pc, err, option, trt, config, logged, log,
                   calib, predictor, infer>>

----------------------------------------------------------------------------
(* Specifications *)

Next ==
    \/ Construct
    \/ SelectBackend
    \/ EnableTrtEngine
    \/ CheckShapeRangeInfo
    \/ CollectCreate
    \/ CollectValidate
    \/ CollectArrays
    \/ CollectPass
    \/ CollectReturn
    \/ FinalizeRecorder
    \/ EnableTuned
    \/ SetDynamicShapeInfo
    \/ ConvertCheck
    \/ Convert
    \/ DeviceConfig
    \/ CreatePredictor
    \/ SelectPipeline
    \/ Run
    \/ Release

Spec == Init /\ [][Next]_vars

\* A StaticInfer built for cpu in run mode paddle, over a model with any list
\* of input names, on which __call__ is applied
SortInit ==
    /\ USE_PIR_TRT \in BOOLEAN
    /\ profile = NoFile
    /\ engine = NoFile
    /\ declared \in {s \in SeqsUpTo(AllNames, MaxInputs) : Len(s) > 0}
    /\ other = NoOther
    /\ chain = NoChain
    /\ pc = "ready"
    /\ err = ""
    /\ option = [model_name |-> "PP-LCNet_x1_0", device_type |-> "cpu",
                 device_id |-> NoId, run_mode |-> "paddle"]
    /\ trt = NoTrt
    /\ config = Configured([NoConfig EXCEPT !.model = "paddle"], option,
                           [new_ir |-> TRUE, new_executor |-> TRUE,
                            disable_mkldnn |-> TRUE, rocm |-> FALSE, raises |-> ""])
    /\ logged = {}
    /\ log = <<Event("create_predictor", NoId)>>
    /\ recorder = "none"
    /\ handles = [n \in AllNames |-> 0]
    /\ recorded = <<>>
    /\ passIdx = 1
    /\ predictor = TRUE
    /\ infer = Pipeline(option)
    /\ invocations = 0
    /\ call = NoCall

SortNext == Run

SortSpec == SortInit /\ [][SortNext]_vars

----------------------------------------------------------------------------
(* The collection when the recorder is not finalised at return: the file is
   written when the garbage collector gets to the recorder (lines 119-123),
   which the language leaves open *)

\* return of _collect_trt_shape_range_info with the recorder still alive
CollectReturnDeferred ==
    /\ pc = "collect_return"
    /\ recorder' = "pending"
    /\ pc' = "tuned"
    /\ UNCHANGED <<files, err, option, trt, config, logged, log, handles,
                   recorded, passIdx, facade>>

\* the garbage collector finalises the recorder at some later point
FinalizeLate ==
    /\ pc \notin {"idle", "failed"}
    /\ recorder = "pending"
    /\ profile' = WrittenProfile(recorded)
    /\ recorder' = "collected"
    /\ log' = Append(log, Event("write_profile", NoId))
    /\ UNCHANGED <<USE_PIR_TRT, engine, declared, other, chain, pc, err, option, trt,
                   config, logged, handles, recorded, passIdx, facade>>

GcNext ==
    \/ Next
    \/ CollectReturnDeferred
    \/ FinalizeLate

GcSpec == Init /\ [][GcNext]_vars

----------------------------------------------------------------------------
(* Two processes in _configure_trt over one cache directory. The first is the
   construction above, at the test of the shape range info file; the second
   is followed through the same lines at each of its calls on the file
   system, with shapes given for every declared input. *)

\* what a recorder holds after the four runs over dynamic_shapes
RecordedRuns(ds) ==
    [k \in 1..Len(CalibPasses) |->
        [n \in AllNames |->
            IF n \in ds.keys THEN ShapeTriple(n, ds.v)[CalibPasses[k]] ELSE 0]]

ValidShapes == {ds \in DynamicShapes : CollectCheckNames(ds, {}, declared) = ""}

\* trt_shape_range_info_path.exists() and the branch taken on it
OtherExists ==
    /\ other.pc = "shape_range_info"
    /\ \E discard \in BOOLEAN :
        LET exists == profile.exists IN
        other' = [other EXCEPT
                    !.existed = exists,
                    !.discard = discard,
                    !.should_collect = ShouldCollect(exists, discard),
                    !.pc = IF ShouldUnlink(exists, discard) THEN "unlink"
                           ELSE IF ShouldCollect(exists, discard) THEN "collect"
                           ELSE "tuned"]
    /\ UNCHANGED <<USE_PIR_TRT, profile, engine, declared, chain, pc, err, option,
                   trt, config, logged, log, calib, facade>>

\* trt_shape_range_info_path.unlink(): raises when the file is gone
OtherUnlink ==
    /\ other.pc = "unlink"
    /\ IF profile.exists
         THEN /\ profile' = NoFile
              /\ other' = [other EXCEPT !.pc = "collect"]
         ELSE /\ profile' = profile
              /\ other' = [other EXCEPT !.pc = "failed",
                                        !.err = "FileNotFoundError"]
    /\ UNCHANGED <<USE_PIR_TRT, engine, declared, chain, pc, err, option, trt,
                   config, logged, log, calib, facade>>

\* _collect_trt_shape_range_info up to its last predictor.run()
OtherCollect ==
    /\ other.pc = "collect"
    /\ \E ds \in ValidShapes :
        other' = [other EXCEPT !.recorded = RecordedRuns(ds),
                               !.pc = "collect_return"]
    /\ UNCHANGED <<USE_PIR_TRT, profile, engine, declared, chain, pc, err, option,
                   trt, config, logged, log, calib, facade>>

\* its return: the recorder is finalised and writes the file
OtherReturn ==
    /\ other.pc = "collect_return"
    /\ profile' = WrittenProfile(other.recorded)
    /\ other' = [other EXCEPT !.pc = "tuned"]
    /\ UNCHANGED <<USE_PIR_TRT, engine, declared, chain, pc, err, option, trt,
                   config, logged, log, calib, facade>>

\* both processes have come to the test of the shape range info file, on gpu
\* in run mode trt_fp32 with trt_use_dynamic_shapes and
\* trt_collect_shape_range_info set; the file is absent or complete
RaceInit ==
    /\ USE_PIR_TRT = FALSE
    /\ declared = ModelInputs
    /\ profile \in {NoFile} \cup {WrittenProfile(RecordedRuns(ds)) : ds \in ValidShapes}
    /\ engine = NoFile
    /\ other = [NoOther EXCEPT !.pc = "shape_range_info"]
    /\ chain = NoChain
    /\ pc = "shape_range_info"
    /\ err = ""
    /\ option = [model_name |-> "PP-LCNet_x1_0", device_type |-> "gpu",
                 device_id |-> 0, run_mode |-> "trt_fp32"]
    /\ trt = [NoTrt EXCEPT !.use_dynamic_shapes = TRUE, !.collect = TRUE]
    /\ config = [NoConfig EXCEPT !.model = "paddle",
                                 !.precision = PRECISION_MAP("trt_fp32"),
                                 !.settings = {"set_optim_cache_dir",
                                               "enable_tensorrt_engine"}]
    /\ logged = {}
    /\ log = <<>>
    /\ recorder = "none"
    /\ handles = [n \in AllNames |-> 0]
    /\ recorded = <<>>
    /\ passIdx = 1
    /\ predictor = FALSE
    /\ infer = NoInfer
    /\ invocations = 0
    /\ call = NoCall

RaceNext ==
    \/ CheckShapeRangeInfo
    \/ CollectCreate
    \/ CollectValidate
    \/ CollectArrays
    \/ CollectPass
    \/ CollectReturn
    \/ FinalizeRecorder
    \/ EnableTuned
    \/ OtherExists
    \/ OtherUnlink
    \/ OtherCollect
    \/ OtherReturn

RaceSpec == RaceInit /\ [][RaceNext]_vars

----------------------------------------------------------------------------
(* PaddleInferChainLegacy followed through its native calls: the handles bound
   in its __init__, and inside one __call__ of the StaticInfer each turn of
   the loop over zip(x, self.input_handles), predictor.run(), and each
   copy_to_cpu of the list over self.output_handles. A handle is named by the
   input or output it was got for. *)

\* lists of distinct names, as a model declares its inputs and outputs
Injective(S, n) ==
    {q \in SeqsUpTo(S, n) : Len(q) > 0 /\ \A i, j \in 1..Len(q) : i # j => q[i] # q[j]}

Op(op, h, v) == [op |-> op, h |-> h, v |-> v]

\* for name in names: handles.append(predictor.get_..._handle(name))
BoundHandles(names) == [i \in 1..Len(names) |-> names[i]]

\* the handles paired from the far end
ZipReversed(x, input_handles) ==
    [i \in 1..(IF Len(x) < Len(input_handles) THEN Len(x) ELSE Len(input_handles)) |->
        [input_ |-> x[i], input_handle |-> input_handles[Len(input_handles) + 1 - i]]]

\* zip(x, self.input_handles): pairs up to the shorter of the two
Zip(x, input_handles) ==
    [i \in 1..(IF Len(x) < Len(input_handles) THEN Len(x) ELSE Len(input_handles)) |->
        [input_ |-> x[i], input_handle |-> input_handles[i]]]

\* predictor.get_output_names(): the outputs of the model, numbered from 1,
\* in the order the predictor lists them
OutputNames ==
    {q \in Injective(1..MaxOutputs, MaxOutputs) : Range(q) = 1..Len(q)}

\* PaddleInferChainLegacy.__init__, as self.infer of a legacy device
LegacyBind ==
    /\ pc = "pipeline"
    /\ _use_legacy_api(option)
    /\ infer' = Pipeline(option)
    /\ chain' = [chain EXCEPT !.input_handles = BoundHandles(declared),
                              !.output_handles = BoundHandles(chain.output_names),
                              !.at = "idle"]
    /\ pc' = "ready"
    /\ UNCHANGED <<USE_PIR_TRT, profile, engine, declared, other, err, option,
                   trt, config, logged, log, calib, predictor, invocations, call>>

\* StaticInfer.__call__ up to the call of self.infer
LegacyCall ==
    /\ pc = "ready"
    /\ chain.at = "idle"
    /\ \E n \in 0..MaxInputs :
        IF Len(declared) # n
          THEN /\ call' = [status |-> CountError, n |-> n, x |-> <<>>,
                           received |-> <<>>]
               /\ chain' = chain
          ELSE /\ invocations < MaxRuns
               /\ \E x \in Tensors(declared) :
                    call' = [status |-> "infer", n |-> n, x |-> x,
                             received |-> _sort_inputs(x, declared)]
               /\ chain' = [chain EXCEPT !.at = "write", !.i = 1, !.ops = <<>>]
    /\ UNCHANGED <<USE_PIR_TRT, profile, engine, declared, other, pc, err,
                   option, trt, config, logged, log, calib, predictor, infer,
                   invocations>>

\* one turn of the loop: input_handle.reshape, input_handle.copy_from_cpu
LegacyWrite ==
    /\ chain.at = "write"
    /\ LET pairs == Zip(call.received, chain.input_handles)
           p == pairs[chain.i]
       IN chain' = [chain EXCEPT
                      !.ops = @ \o <<Op("reshape", p.input_handle, p.input_),
                                     Op("copy_from_cpu", p.input_handle, p.input_)>>,
                      !.i = IF chain.i = Len(pairs) THEN 1 ELSE chain.i + 1,
                      !.at = IF chain.i = Len(pairs) THEN "run" ELSE "write"]
    /\ UNCHANGED <<USE_PIR_TRT, profile, engine, declared, other, pc, err,
                   option, trt, config, logged, log, calib, predictor, infer,
                   invocations, call>>

\* self.predictor.run()
LegacyRun ==
    /\ chain.at = "run"
    /\ chain' = [chain EXCEPT !.ops = Append(@, Op("run", 0, 0)), !.at = "read"]
    /\ invocations' = InferRuns(invocations)
    /\ UNCHANGED <<USE_PIR_TRT, profile, engine, declared, other, pc, err,
                   option, trt, config, logged, log, calib, predictor, infer,
                   call>>

\* one o.copy_to_cpu() of the list; after the last one __call__ returns
LegacyRead ==
    /\ chain.at = "read"
    /\ LET last == chain.i = Len(chain.output_handles) IN
        /\ chain' = [chain EXCEPT
                       !.ops = Append(@, Op("copy_to_cpu",
                                            chain.output_handles[chain.i], 0)),
                       !.i = IF last THEN 1 ELSE chain.i + 1,
                       !.at = IF last THEN "idle" ELSE "read"]
        /\ call' = [call EXCEPT !.status = IF last THEN "ok" ELSE @]
    /\ UNCHANGED <<USE_PIR_TRT, profile, engine, declared, other, pc, err,
                   option, trt, config, logged, log, calib, predictor, infer,
                   invocations>>

\* _create has returned a predictor for npu in run mode paddle, over a model
\* with any distinct input names and output names
LegacyInit ==
    /\ USE_PIR_TRT = FALSE
    /\ profile = NoFile
    /\ engine = NoFile
    /\ declared \in Injective(AllNames, MaxInputs)
    /\ other = NoOther
    /\ chain \in {[NoChain EXCEPT !.output_names = o] : o \in OutputNames}
    /\ pc = "pipeline"
    /\ err = ""
    /\ option = [model_name |-> "PP-LCNet_x1_0", device_type |-> "npu",
                 device_id |-> NoId, run_mode |-> "paddle"]
    /\ trt = NoTrt
    /\ config = Configured([NoConfig EXCEPT !.model = "paddle"], option,
                           [new_ir |-> TRUE, new_executor |-> TRUE,
                            disable_mkldnn |-> TRUE, rocm |-> FALSE, raises |-> ""])
    /\ logged = {}
    /\ log = <<Event("create_predictor", NoId)>>
    /\ recorder = "none"
    /\ handles = [n \in AllNames |-> 0]
    /\ recorded = <<>>
    /\ passIdx = 1
    /\ predictor = TRUE
    /\ infer = NoInfer
    /\ invocations = 0
    /\ call = NoCall

LegacyNext ==
    \/ LegacyBind
    \/ LegacyCall
    \/ LegacyWrite
    \/ LegacyRun
    \/ LegacyRead

LegacySpec == LegacyInit /\ [][LegacyNext]_vars

----------------------------------------------------------------------------
(* Properties *)

Count(e) == Cardinality({i \in 1..Len(log) : log[i].e = e})
Occurrences(s, v) == Cardinality({i \in 1..Len(s) : s[i] = v})
AfterBackend == {"configure_trt", "shape_range_info", "dynamic_shape_info",
                 "collect", "collect_validate", "collect_arrays", "collect_pass",
                 "collect_return", "tuned", "convert", "device", "create",
                 "pipeline", "ready"}
Collecting == {"collect", "collect_validate", "collect_arrays", "collect_pass",
               "collect_return"}
AfterCollect == {"collect_return", "tuned", "device", "create", "pipeline", "ready"}

\* C1: when _collect_trt_shape_range_info has run to completion the recorder
\* was run exactly four times, and at the 1st, 2nd, 3rd and 4th run every
\* declared input held its min, opt, opt and max shape respectively.
C1_MinOptOptMax ==
    (trt.should_collect /\ pc \in AfterCollect) =>
        /\ Len(recorded) = 4
        /\ Count("recorder_run") = 4
        /\ \A i \in 1..4 : \A n \in Range(declared) :
             recorded[i][n] = ShapeTriple(n, trt.dynamic_shapes.v)[<<1, 2, 2, 3>>[i]]

C1_Witness ==
    /\ pc = "collect_return"
    /\ Len(recorded) = 4
    /\ trt.dynamic_shapes.keys = Range(declared)

\* C2: once a complete shape range info file is in place, a step of a
\* construction that does not set trt_discard_cached_shape_range_info neither
\* enters the collection nor changes the file.
C2_CollectedOnce ==
    [][(/\ profile.exists
        /\ Len(profile.content) = 4
        /\ ~trt.discard
        /\ ~trt'.discard)
       => (profile' = profile /\ pc' \notin Collecting /\ recorded' \in {recorded, <<>>})]_vars

C2_Witness ==
    /\ pc = "ready"
    /\ trt.existed
    /\ ~trt.discard
    /\ ~trt.should_collect
    /\ Count("recorder_run") = 0
    /\ profile.exists
    /\ Len(profile.content) = 4

\* C3: on the shape range info route the collection is made iff the file was
\* absent or the discard flag is set; with the file present and the flag set
\* the file is unlinked before the recorder is created; with the file present
\* and the flag not set the file is neither unlinked nor written.
C3_CollectIffAbsentOrDiscard ==
    /\ Count("create_recorder") > 0 => (~trt.existed \/ trt.discard)
    /\ (pc \in {"tuned", "device", "create", "pipeline", "ready"}
          /\ ~trt.existed /\ trt.should_collect)
         => Count("recorder_run") > 0
    /\ (pc \in {"tuned", "device", "create", "pipeline", "ready"}
          /\ trt.existed /\ trt.discard)
         => Count("recorder_run") > 0
    /\ (trt.existed /\ trt.discard) =>
         /\ log # <<>>
         /\ log[1].e = "unlink"
    /\ (trt.existed /\ ~trt.discard) =>
         /\ Count("unlink") = 0
         /\ Count("write_profile") = 0
         /\ Count("create_recorder") = 0
         /\ profile.exists
    /\ (~trt.existed) => Count("unlink") = 0

C3_Witness ==
    /\ pc = "ready"
    /\ trt.existed
    /\ trt.discard
    /\ log[1].e = "unlink"
    /\ Count("write_profile") = 1

\* C4: a shape range info file that exists was written by a collection that
\* validated the input names and made all four runs; a collection that fails
\* partway leaves no file.
C4_FileProvesCollection ==
    profile.exists =>
        /\ Len(profile.content) = 4
        /\ ~(pc = "failed" /\ Count("write_profile") > 0)

\* C5: in a trt run mode, dynamic shapes whose keys differ from the declared
\* input names end the construction with an input name error, and no final
\* predictor is created.
NameErrors == {"Invalid input name found in dynamic_shapes",
               "Input name not found in dynamic_shapes",
               "Invalid input name found in trt_dynamic_shapes",
               "Input name not found in trt_dynamic_shapes"}

C5_MismatchFails ==
    (/\ IsTrt(option.run_mode)
     /\ trt.dynamic_shapes.given
     /\ trt.dynamic_shapes.keys # Range(declared)) =>
        /\ ~predictor
        /\ pc \notin {"device", "create", "pipeline", "ready"}
        /\ pc = "failed" => err \in NameErrors

\* C6 as stated: a construction asked for a trt run mode on a device other
\* than gpu fails the assertion, whatever the model name, and nothing has
\* been created.
C6_RequestedTrtNeedsGpu ==
    [][(pc = "normalize" /\ IsTrt(option.run_mode) /\ option.device_type # "gpu")
        => (/\ pc' = "failed"
            /\ err' = "assert device_type == gpu"
            /\ log' = <<>>
            /\ ~predictor')]_vars

\* C6 amended: the same for every model name but LaTeX_OCR_rec, whose run
\* mode is replaced by mkldnn before the test; a trt run mode in effect on a
\* device other than gpu is never configured, and a construction that failed
\* the assertion has made no recorder, no conversion and no predictor.
C6_EffectiveTrtNeedsGpu ==
    /\ [][(/\ pc = "normalize"
           /\ IsTrt(option.run_mode)
           /\ option.device_type # "gpu"
           /\ option.model_name # "LaTeX_OCR_rec")
          => (/\ pc' = "failed"
              /\ err' = "assert device_type == gpu"
              /\ log' = <<>>
              /\ ~predictor')]_vars
    /\ []((pc \notin {"idle", "normalize"} /\ IsTrt(option.run_mode)
             /\ option.device_type # "gpu")
           => (pc = "failed" /\ err \in {"assert device_type == gpu",
                                         "No valid Paddle model found"}))
    /\ []((pc = "failed" /\ err = "assert device_type == gpu")
           => (log = <<>> /\ ~predictor /\ recorder = "none"
               /\ infer.kind = "none"))

C6_Witness ==
    /\ pc = "failed"
    /\ err = "assert device_type == gpu"
    /\ IsTrt(option.run_mode)
    /\ option.device_type = "cpu"
    /\ log = <<>>

\* C7: a __call__ with a number of tensors other than the number of declared
\* inputs raises without invoking the pipeline and leaves the StaticInfer as
\* it was; a __call__ with the right number after it invokes the predictor
\* once on the sorted tensors.
C7_CountMismatchIsHarmless ==
    [][(pc = "ready" /\ pc' = "ready" /\ call' # call) =>
         /\ (call'.n # Len(declared)) =>
              /\ call'.status = CountError
              /\ call'.received = <<>>
              /\ UNCHANGED <<files, err, option, trt, config, logged,
                             log, calib, predictor, infer, invocations>>
         /\ (call'.n = Len(declared)) =>
              /\ call'.status = "ok"
              /\ invocations' = invocations + 1
              /\ Len(call'.received) = Len(declared)]_vars

C7_Witness ==
    /\ pc = "ready"
    /\ call.status = CountError
    /\ call.n = Len(declared) + 1
    /\ invocations = 1

\* C8: what infer receives is a permutation of the caller's tensors; when the
\* declared names are distinct and the caller's tensors come in name-sorted
\* order, position i holds the tensor of declared name i.
Distinct(s) == \A i, j \in 1..Len(s) : i # j => s[i] # s[j]
Ascending(s) == \A i \in 1..(Len(s) - 1) : s[i] < s[i + 1]

C8_DeclaredOrder ==
    call.status = "ok" =>
        /\ Len(call.received) = Len(call.x)
        /\ \A t \in AllNames :
             Occurrences(call.received, t) = Occurrences(call.x, t)
        /\ (Distinct(declared) /\ Ascending(call.x)
              /\ Range(call.x) = Range(declared))
             => call.received = declared

C8_Witness ==
    /\ call.status = "ok"
    /\ declared = <<3, 1, 2>>
    /\ call.x = <<1, 2, 3>>
    /\ call.received = <<3, 1, 2>>

\* C9: a constructed StaticInfer uses the legacy chain iff its device type
\* is none of cpu, gpu, dcu, the three-stage chain otherwise, and no
\* __call__ changes self.infer.
C9_LegacyIffOtherDevice ==
    /\ [](pc = "ready" =>
            /\ infer.kind \in {"legacy", "modern"}
            /\ infer.kind = "legacy" <=> option.device_type \notin {"cpu", "gpu", "dcu"})
    /\ [][(pc = "ready" /\ pc' = "ready") => infer' = infer]_vars

C9_Witness ==
    /\ pc = "ready"
    /\ infer.kind = "legacy"
    /\ invocations > 0

\* C10: with device type gpu or dcu and no device id, the id becomes 0 before
\* any predictor is created (the recorder gets gpu id 0) and before
\* PaddleCopyToDevice is built, and stays 0 over every __call__; a device id
\* that was given is never changed.
C10_DeviceIdDefault ==
    /\ [](pc \in {"idle", "normalize"} =>
            (log = <<>> /\ ~predictor /\ infer.kind = "none"))
    /\ [][pc = "normalize" =>
            option'.device_id =
              IF option.device_type \in {"gpu", "dcu"} /\ option.device_id = NoId
                THEN 0 ELSE option.device_id]_vars
    /\ [][(pc \notin {"idle", "normalize"} /\ pc' # "idle") =>
            option'.device_id = option.device_id]_vars
    /\ []("debug: device_id has been set to 0" \in logged =>
            /\ option.device_id = 0
            /\ \A i \in 1..Len(log) :
                 log[i].e \in {"create_recorder", "create_predictor"} => log[i].gpu = 0
            /\ infer.kind = "modern" => infer.device_id = 0)

C10_Witness ==
    /\ pc = "ready"
    /\ option.device_type = "gpu"
    /\ "debug: device_id has been set to 0" \in logged
    /\ option.device_id = 0
    /\ \E i \in 1..Len(log) : log[i] = Event("create_recorder", 0)
    /\ log[Len(log)] = Event("create_predictor", 0)
    /\ infer.device_id = 0
    /\ invocations > 0

\* C11: a construction in a trt run mode on gpu whose trt_dynamic_shapes is
\* None ends with "No dynamic shape information provided" on either route,
\* and no final predictor is created.
C11_MissingShapesFail ==
    (/\ IsTrt(option.run_mode)
     /\ option.device_type = "gpu"
     /\ ~trt.dynamic_shapes.given
     /\ pc \in {"failed", "device", "create", "pipeline", "ready"}
     /\ err # "No valid Paddle model found") =>
        /\ pc = "failed"
        /\ err = "No dynamic shape information provided"
        /\ ~predictor

\* C12: on cpu in run mode paddle, mkldnn or mkldnn_bf16 the device
\* configuration never raises, whatever the runtime offers (mkldnn raising
\* or not, enable_new_ir, enable_new_executor, disable_mkldnn present or
\* not): the only failure of such a construction is the missing model, and
\* every one that found its model comes to a predictor.
C12_CpuNeverUnavailable ==
    /\ []((option.device_type = "cpu" /\ ~IsTrt(option.run_mode) /\ pc = "failed")
            => err = "No valid Paddle model found")
    /\ [][(pc = "device" /\ option.device_type = "cpu")
            => (pc' = "create" /\ err' = "" /\ "disable_gpu" \in config'.settings)]_vars

C12_Witness ==
    /\ pc = "ready"
    /\ option.device_type = "cpu"
    /\ option.run_mode = "mkldnn_bf16"
    /\ "warning: MKL-DNN is not available. We will disable MKL-DNN." \in logged
    /\ "enable_new_executor" \notin config.settings
    /\ predictor

\* C13: once a converted model is in place under <cache>/trt/<prefix>, no
\* later construction calls convert again or rewrites it.
C13_EngineReused ==
    [][engine.exists =>
         /\ engine' = engine
         /\ ~(Len(log') = Len(log) + 1 /\ log'[Len(log')].e = "convert")]_vars

\* C14: on a StaticInfer constructed in a trt run mode, a __call__ neither
\* converts nor collects, leaves the shape range info file and the converted
\* model as they are, and runs the predictor exactly once when it succeeds
\* and not at all when it raises.
C14_CallsDoNotRebuild ==
    [][(pc = "ready" /\ pc' = "ready" /\ IsTrt(option.run_mode)) =>
         /\ profile' = profile
         /\ engine' = engine
         /\ log' = log
         /\ recorder' = recorder
         /\ recorded' = recorded
         /\ config' = config
         /\ call'.status = "ok" => invocations' = invocations + 1
         /\ call'.status = CountError => invocations' = invocations]_vars

C14_Witness ==
    /\ pc = "ready"
    /\ IsTrt(option.run_mode)
    /\ call.status = "ok"
    /\ invocations = 1
    /\ profile.exists
    /\ Count("recorder_run") = 4
    /\ Count("create_predictor") = 1

\* C15: within a construction the route is fixed by USE_PIR_TRT alone. With
\* the flag set no recorder is created or run and the shape range info file
\* is neither written nor unlinked; with the flag unset _convert_trt is never
\* entered and nothing is written under trt/<prefix>.
C15_RoutesExclusive ==
    /\ [](USE_PIR_TRT =>
            /\ Count("create_recorder") = 0
            /\ Count("recorder_run") = 0
            /\ Count("unlink") = 0
            /\ Count("write_profile") = 0
            /\ recorder = "none"
            /\ pc \notin Collecting \cup {"shape_range_info", "dynamic_shape_info",
                                        "tuned"})
    /\ [][USE_PIR_TRT => profile' = profile]_vars
    /\ [](~USE_PIR_TRT =>
            /\ Count("create_probe") = 0
            /\ Count("convert") = 0
            /\ pc # "convert")
    /\ [][~USE_PIR_TRT => engine' = engine]_vars
    /\ [][(pc = "configure_trt" /\ pc' # "configure_trt") =>
            (USE_PIR_TRT <=> (log' # <<>> /\ log'[Len(log')].e = "create_probe"))]_vars

C15_Witness ==
    /\ pc = "ready"
    /\ USE_PIR_TRT
    /\ option.run_mode = "trt_int8"
    /\ Count("convert") = 1
    /\ engine.exists
    /\ ~profile.exists
    /\ predictor

\* C16: once _collect_trt_shape_range_info has returned, the shape range info
\* file exists: it is there when enable_tuned_tensorrt_dynamic_shape is given
\* its path and when the final predictor is created, whenever the recorder
\* happens to be finalised.
C16_ProfileWrittenAtReturn ==
    (trt.should_collect /\ pc \in {"tuned", "device", "create", "pipeline", "ready"})
        => profile.exists

\* C17: a construction goes through its steps in one order: the model files
\* are found, the option is normalised, in a trt run mode (and only then) the
\* collection or the conversion is made, the device is configured, one final
\* predictor is created, self.infer is chosen. The final predictor is created
\* after the collection or conversion has finished, and after a raise no
\* further step is taken and self.infer is never chosen.
Stage(p) ==
    CASE p = "idle" -> 0
      [] p = "normalize" -> 1
      [] p \in {"configure_trt", "shape_range_info", "dynamic_shape_info",
                "tuned", "convert"} \cup Collecting -> 2
      [] p = "device" -> 3
      [] p = "create" -> 4
      [] p = "pipeline" -> 5
      [] p = "ready" -> 6
      [] OTHER -> 7

C17_StepOrder ==
    /\ [][(pc # "failed" /\ pc' \notin {"idle", "failed"}) =>
            \/ pc' = pc
            \/ Stage(pc') = Stage(pc) /\ Stage(pc) = 2
            \/ Stage(pc') = Stage(pc) + 1 /\ (Stage(pc') = 2 => IsTrt(option'.run_mode))
            \/ Stage(pc) = 1 /\ Stage(pc') = 3 /\ ~IsTrt(option'.run_mode)]_vars
    /\ [][pc = "failed" =>
            /\ pc' \in {"failed", "idle"}
            /\ pc' = "failed" => (config' = config /\ predictor' = predictor
                                  /\ infer' = infer /\ option' = option)]_vars
    /\ [](pc = "failed" => (~predictor /\ infer.kind = "none"))
    /\ [](Stage(pc) \in 2..6 =>
            /\ option.model_name = "LaTeX_OCR_rec" => option.run_mode = "mkldnn"
            /\ option.device_type \in {"gpu", "dcu"} => option.device_id # NoId)
    /\ [](Stage(pc) \in 3..6 =>
            /\ recorder # "live"
            /\ trt.should_collect => (Len(recorded) = 4 /\ Count("recorder_run") = 4)
            /\ (IsTrt(option.run_mode) /\ USE_PIR_TRT) => Count("convert") = 1)
    /\ [](~IsTrt(option.run_mode) =>
            Count("create_recorder") + Count("create_probe") + Count("convert") = 0)
    /\ []("enable_memory_optim" \in config.settings <=> Stage(pc) \in 4..6)
    /\ [](predictor <=> Stage(pc) \in 5..6)
    /\ [](Count("create_predictor") = IF predictor THEN 1 ELSE 0)
    /\ [](\A i, j \in 1..Len(log) :
            (log[i].e = "create_predictor"
               /\ log[j].e \in {"unlink", "create_recorder", "recorder_run",
                                "create_probe", "convert"}) => j < i)
    /\ [](infer.kind # "none" <=> pc = "ready")

C17_Witness ==
    /\ pc = "ready"
    /\ option.run_mode = "trt_fp16"
    /\ trt.existed /\ trt.discard
    /\ Len(log) = 8
    /\ log[1].e = "unlink"
    /\ log[2].e = "create_recorder"
    /\ log[7].e = "write_profile"
    /\ log[8].e = "create_predictor"
    /\ infer.kind = "modern"

\* C18: nothing keeps two processes apart on the shape range info file. Each
\* decides on its own exists() alone (collect iff the file was absent or the
\* discard flag is set), a file at the path holds what was there before or
\* what the last recorder finalised wrote, and an unlink fails only when the
\* other process removed the file first. Reached: both found no file, both
\* made the four runs, both wrote, and the later write replaced the earlier.
C18_NoMutualExclusion ==
    /\ other.pc # "shape_range_info" =>
         (other.should_collect <=> (~other.existed \/ other.discard))
    /\ pc # "shape_range_info" =>
         (trt.should_collect <=> (~trt.existed \/ trt.discard))
    /\ other.pc \in {"collect_return", "tuned"} =>
         (other.should_collect => Len(other.recorded) = 4)
    /\ (trt.should_collect /\ pc \in {"collect_return", "tuned", "device"}) =>
         Len(recorded) = 4
    /\ (profile.exists /\ Len(profile.content) # 4) =>
         (pc = "failed" /\ profile.content = recorded)
    /\ other.pc = "failed" =>
         /\ other.err = "FileNotFoundError"
         /\ other.existed /\ other.discard
         /\ trt.existed /\ trt.discard

C18_Witness ==
    /\ ~trt.existed
    /\ ~other.existed
    /\ pc = "tuned"
    /\ other.pc = "tuned"
    /\ Len(recorded) = 4
    /\ Len(other.recorded) = 4
    /\ recorded # other.recorded
    /\ Count("write_profile") = 1
    /\ profile.exists
    /\ profile.content = other.recorded

\* C19: on cpu in an mkldnn run mode, when enable_mkldnn or
\* enable_mkldnn_bfloat16 raises, the construction goes on and the Config is
\* that of the plain path: mkldnn is not enabled in it and no mkldnn setting
\* is applied to it.
MkldnnOnly == {"enable_mkldnn", "enable_mkldnn_bfloat16", "set_mkldnn_cache_capacity"}

C19_FallbackIsPlain ==
    (/\ option.device_type = "cpu"
     /\ "warning: MKL-DNN is not available. We will disable MKL-DNN." \in logged) =>
        /\ pc \in {"create", "pipeline", "ready"}
        /\ config.settings \cap MkldnnOnly = {}

\* C20: the run mode of LaTeX_OCR_rec is replaced by mkldnn only on an Intel
\* cpu, with the warning exactly when the mode asked for was another one; on
\* any other cpu and for any other model the run mode stays as asked. Since
\* the warning is logged exactly on an Intel cpu with another mode asked for,
\* a run mode that changes is a run mode warned about.
OverrideWarning == "warning: LaTeX_OCR_rec only supports mkldnn on Intel"

C20_OverrideOnIntelOnly ==
    [][pc = "normalize" =>
         /\ option'.run_mode # option.run_mode =>
              /\ option.model_name = "LaTeX_OCR_rec"
              /\ option'.run_mode = "mkldnn"
              /\ OverrideWarning \in logged'
         /\ OverrideWarning \in logged' =>
              /\ option.model_name = "LaTeX_OCR_rec"
              /\ option.run_mode # "mkldnn"
              /\ option'.run_mode = "mkldnn"]_vars

\* C21: when TRT_CFG holds for the model a name that TensorRTConfig has no
\* attribute for, _convert_trt warns, leaves that name off the TensorRTConfig,
\* sets the names it does have, and converts with the precision mapped from
\* the run mode.
TrtCfgWarning == "warning: The TensorRTConfig don't have the attr"

C21_UnknownSettingIgnored ==
    Count("convert") = 1 =>
        /\ engine.exists
        /\ config.precision = precision_map(option.run_mode)
        /\ trt.overrides \subseteq TensorRTConfigAttrs
        /\ TrtCfgWarning \in logged => "not_an_attr" \notin trt.overrides

\* C22 as stated: on gpu, enable_new_ir, enable_new_executor and
\* set_optimization_level(3) are applied iff the run mode in effect is not a
\* trt one; in both cases enable_use_gpu is given the option's device id and
\* exp_disable_mixed_precision_ops is applied.
GpuToggles == {"enable_new_ir", "enable_new_executor", "set_optimization_level"}

C22_GpuTogglesIffNotTrt ==
    (option.device_type = "gpu" /\ pc \in {"create", "pipeline", "ready"}) =>
        /\ {"exp_disable_mixed_precision_ops", "enable_use_gpu"} \subseteq config.settings
        /\ config.gpu = option.device_id
        /\ IsTrt(option.run_mode) => config.settings \cap GpuToggles = {}
        /\ ~IsTrt(option.run_mode) => GpuToggles \subseteq config.settings

\* C22 amended: none of the three is applied in a trt run mode; outside the
\* trt run modes set_optimization_level(3) is always applied, and the two
\* toggles are applied only where the runtime's Config has the method, so
\* either may be missing. The gpu is enabled with the option's device id and
\* mixed precision is disabled for feed and fetch in every gpu construction,
\* and none of this is on the Config before the device branch.
C22_GpuTogglesOutsideTrt ==
    option.device_type = "gpu" =>
        /\ pc \in {"create", "pipeline", "ready"} =>
             /\ {"exp_disable_mixed_precision_ops", "enable_use_gpu"}
                   \subseteq config.settings
             /\ config.gpu = option.device_id
             /\ option.device_id # NoId
             /\ IsTrt(option.run_mode) => config.settings \cap GpuToggles = {}
             /\ ~IsTrt(option.run_mode) => "set_optimization_level" \in config.settings
        /\ pc \notin {"create", "pipeline", "ready"} =>
             /\ config.settings \cap (GpuToggles \cup {"exp_disable_mixed_precision_ops",
                                                      "enable_use_gpu"}) = {}
             /\ config.gpu = NoId

C22_Witness ==
    /\ pc = "ready"
    /\ option.device_type = "gpu"
    /\ option.run_mode = "paddle"
    /\ option.device_id = 1
    /\ config.gpu = 1
    /\ "set_optimization_level" \in config.settings
    /\ "enable_new_executor" \in config.settings
    /\ "enable_new_ir" \notin config.settings

\* C23: the legacy chain holds one input handle for each declared input name
\* and one output handle for each declared output name, in the declared
\* order, got once in its __init__ and never replaced. The native calls of one
\* __call__ are, in this order: for i = 1, 2, ... the reshape and the
\* copy_from_cpu of input i on the handle of declared input i, one
\* predictor.run(), the copy_to_cpu of every output handle in declared order;
\* so no output is read before the run and no input written after it.
ExpectedOps(x, ins, outs) ==
    [k \in 1..(2 * Len(ins) + 1 + Len(outs)) |->
        IF k <= 2 * Len(ins)
          THEN Op(IF k % 2 = 1 THEN "reshape" ELSE "copy_from_cpu",
                  ins[(k + 1) \div 2], x[(k + 1) \div 2])
        ELSE IF k = 2 * Len(ins) + 1 THEN Op("run", 0, 0)
        ELSE Op("copy_to_cpu", outs[k - 2 * Len(ins) - 1], 0)]

IsPrefix(a, b) == Len(a) <= Len(b) /\ \A i \in 1..Len(a) : a[i] = b[i]

C23_LegacyChainOrder ==
    /\ [](chain.at # "none" =>
            /\ chain.input_handles = declared
            /\ chain.output_handles = chain.output_names)
    /\ [][chain.at # "none" =>
            /\ chain'.input_handles = chain.input_handles
            /\ chain'.output_handles = chain.output_handles]_vars
    /\ [](call.status \in {"infer", "ok"} =>
            IsPrefix(chain.ops,
                     ExpectedOps(call.received, declared, chain.output_names)))
    /\ [](call.status = "ok" =>
            chain.ops = ExpectedOps(call.received, declared, chain.output_names))
    /\ [](call.status = "infer" <=> chain.at \in {"write", "run", "read"})
    /\ [][invocations' # invocations =>
            (invocations' = invocations + 1 /\ chain.at = "run")]_vars

C23_Witness ==
    /\ call.status = "ok"
    /\ chain.at = "idle"
    /\ declared = <<3, 1, 2>>
    /\ call.x = <<1, 2, 3>>
    /\ chain.output_names = <<2, 1>>
    /\ Len(chain.ops) = 9
    /\ chain.ops[6] = Op("copy_from_cpu", 2, 2)
    /\ chain.ops[7].op = "run"
    /\ chain.ops[9] = Op("copy_to_cpu", 1, 0)
    /\ invocations = 1

====
